---------------------------- MODULE Spec2Model ----------------------------
(***************************************************************************)
(* Streaming trade pipeline of smart-hl: the zustand store                 *)
(* (src/store/useStore.ts), the trade processor hook useProcessor          *)
(* (src/lib/constants.ts, lines 801-950) and the Hyperliquid WebSocket     *)
(* hook (src/hooks/useHyperliquidWS.ts).                                   *)
(***************************************************************************)
EXTENDS Integers, Sequences, FiniteSets, TLC

(***************************************************************************)
(* Bounds of the model.                                                    *)
(***************************************************************************)
\* Number of handleTrade / addTrade calls explored (each call takes the
\* next value of the history counter clock).
MaxSubmit == 3
\* Retention count of the store.  The store sets maxTrades: 100
\* (src/store/useStore.ts:80); the model explores the same code with a
\* small retention count so that eviction is reached.
maxTrades == 2

\* Sockets the connector may create (new WebSocket calls).
MaxSockets == 3
\* Mounts of the component that uses the hook.
MaxMounts == 2
\* Sockets one connector creates in a behaviour of the reconnect policy: the
\* first one and MAX_RECONNECT_ATTEMPTS reconnects.
MaxChain == 6
\* Trades frames with data that onmessage handles (the store's messageCount).
MaxFrames == 2

(***************************************************************************)
(* Program constants.                                                      *)
(***************************************************************************)
RECONNECT_DELAY_BASE == 3000
MAX_RECONNECT_ATTEMPTS == 5
\* the close code of a normal closure
NormalClosure == 1000
\* the close code the browser reports for a failed connection
AbnormalClosure == 1006
WHALE_THRESHOLD_USD == 100000
NOISE_THRESHOLD_USD == 1000
\* hash.slice(0, 8) in generateTradeId
HashPrefixLen == 8

(***************************************************************************)
(* JavaScript numbers: a nonnegative integer, or NaN.                      *)
(***************************************************************************)
Num(n) == [nan |-> FALSE, v |-> n]
NaN == [nan |-> TRUE, v |-> 0]
NumMul(a, b) == IF a.nan \/ b.nan THEN NaN ELSE Num(a.v * b.v)
NumAdd(a, b) == IF a.nan \/ b.nan THEN NaN ELSE Num(a.v + b.v)
\* Mutants of the comparisons: > for >=, <= for <.
NumGt(a, b) == ~a.nan /\ ~b.nan /\ a.v > b.v
NumLe(a, b) == ~a.nan /\ ~b.nan /\ a.v <= b.v
\* every comparison with NaN is false
NumGe(a, b) == ~a.nan /\ ~b.nan /\ a.v >= b.v
NumLt(a, b) == ~a.nan /\ ~b.nan /\ a.v < b.v

\* parseFloat on the price / size strings of the feed: the longest numeric
\* prefix, NaN when there is none.
parseFloat(s) ==
    CASE s = "50000" -> Num(50000)
      [] s = "1000"  -> Num(1000)
      [] s = "999"   -> Num(999)
      [] s = "99999" -> Num(99999)
      [] s = "500"   -> Num(500)
      [] s = "2"     -> Num(2)
      [] s = "1"     -> Num(1)
      [] s = "3x"    -> Num(3)
      [] OTHER       -> NaN

\* String.prototype.toLowerCase on the addresses of the model.
toLowerCase(a) ==
    CASE a = "0xAAA" -> "0xaaa"
      [] a = "0xBbB" -> "0xbbb"
      [] OTHER       -> a

\* Array.prototype.slice(0, n) / String.prototype.slice(0, n)
Slice0(s, n) == SubSeq(s, 1, IF Len(s) < n THEN Len(s) ELSE n)

Undefined == "undefined"

(***************************************************************************)
(* src/lib/utils.ts: generateTradeId.  A hash is a sequence of characters; *)
(* the id is the pair of the tid and the first eight characters.           *)
(***************************************************************************)
generateTradeId(tid, hash) == <<tid, Slice0(hash, HashPrefixLen)>>

\* Hashes of the feed: HashA and HashA2 agree on their first eight
\* characters and differ after them; HashB differs from both.
HashA  == <<1, 2, 3, 4, 5, 6, 7, 8, 9>>
HashA2 == <<1, 2, 3, 4, 5, 6, 7, 8, 0>>
HashB  == <<2, 2, 3, 4, 5, 6, 7, 8, 9>>

(***************************************************************************)
(* Lookup tables (SmartWalletMap) the loader may install.                  *)
(***************************************************************************)
EmptyMap == [a \in {} |-> [labels |-> <<>>]]
FundMap == [a \in {"0xaaa"} |-> [labels |-> <<"Fund">>]]
SmartMaps == {FundMap}
\* A table with two wallets; the second has two labels.
BothMap ==
    [a \in {"0xaaa", "0xbbb"} |->
       IF a = "0xaaa" THEN [labels |-> <<"Fund">>]
       ELSE [labels |-> <<"Smart DEX Trader", "Early Adopter">>]]

Has(map, a) == a \in DOMAIN map
\* Mutant of FirstLabel: the last label of the entry.
LastLabel(map, a) ==
    IF a \in DOMAIN map /\ Len(map[a].labels) > 0
    THEN map[a].labels[Len(map[a].labels)] ELSE "undefined"

FirstLabel(map, a) ==
    IF Has(map, a) /\ Len(map[a].labels) > 0 THEN map[a].labels[1] ELSE Undefined
Truthy(label) == label # Undefined /\ label # ""

(***************************************************************************)
(* useProcessor.processTrade (src/lib/constants.ts:853-906): the record    *)
(* built from a raw trade, or nothing when the noise filter drops it.      *)
(* A raw trade without its users pair (rawTrade.users undefined or empty)  *)
(* makes the destructuring of line 862, or the toLowerCase call on an      *)
(* undefined maker, throw a TypeError: the call returns nothing and the    *)
(* exception goes to the caller.                                           *)
(***************************************************************************)
NoUsers == <<>>
Threw(r) == "threw" \in DOMAIN r

processTrade(rawTrade, map) ==
    IF Len(rawTrade.users) < 2 THEN [emit |-> FALSE, threw |-> TRUE] ELSE
    LET price == parseFloat(rawTrade.px)
        size == parseFloat(rawTrade.sz)
        sizeUsd == NumMul(price, size)
        maker == rawTrade.users[1]
        taker == rawTrade.users[2]
        makerLower == toLowerCase(maker)
        takerLower == toLowerCase(taker)
        makerData == Has(map, makerLower)
        takerData == Has(map, takerLower)
        isSmart == makerData \/ takerData
        smartLabel == IF makerData THEN FirstLabel(map, makerLower)
                      ELSE FirstLabel(map, takerLower)
        smartWalletAddress == IF makerData THEN maker ELSE taker
        isWhale == NumGe(sizeUsd, Num(WHALE_THRESHOLD_USD))
    IN  IF ~isSmart /\ ~isWhale /\ NumLt(sizeUsd, Num(NOISE_THRESHOLD_USD))
        THEN [emit |-> FALSE]
        ELSE [emit |-> TRUE,
              trade |->
                [id |-> generateTradeId(rawTrade.tid, rawTrade.hash),
                 timestamp |-> rawTrade.time,
                 ticker |-> rawTrade.coin,
                 side |-> IF rawTrade.side = "B" THEN "Long" ELSE "Short",
                 price |-> price,
                 sizeUsd |-> sizeUsd,
                 walletAddress |-> IF isSmart THEN smartWalletAddress
                                   ELSE IF isWhale THEN taker ELSE maker,
                 walletLabel |-> IF Truthy(smartLabel) THEN smartLabel
                                 ELSE IF isWhale THEN "Whale" ELSE Undefined,
                 isWhale |-> isWhale,
                 isSmart |-> isSmart,
                 txHash |-> rawTrade.hash]]

(***************************************************************************)
(* Raw trades the feed delivers in the buffer specification: one trade per *)
(* tid (tid 1 is a whale trade of a tracked maker, the others ordinary),   *)
(* a redelivery of tid 1 whose hash differs only after the id prefix, and  *)
(* a small trade of unknown wallets, which the noise filter drops.         *)
(***************************************************************************)
RawTrade(tid, hash, px, sz, maker, taker) ==
    [coin |-> "BTC", side |-> "B", px |-> px, sz |-> sz, time |-> tid,
     hash |-> hash, tid |-> tid, users |-> <<maker, taker>>]

\* Raw trades for the processing step alone: notionals below, at and above
\* the two thresholds, for each way the two participants can be tracked
\* (addresses arrive in mixed case), and the raw sides "B", "A" and another.
ProcessInputs ==
    {RawTrade(8, HashB, n[1], n[2], u[1], u[2]) :
       n \in {<<"999", "1">>, <<"1000", "1">>, <<"50000", "2">>},
       u \in {<<"0xccc", "0xddd">>, <<"0xAAA", "0xddd">>,
              <<"0xccc", "0xBbB">>, <<"0xAAA", "0xBbB">>}}
    \cup {RawTrade(8, HashB, "99999", "1", "0xccc", "0xddd")}
    \cup {[RawTrade(8, HashB, "1000", "2", "0xccc", "0xddd") EXCEPT !.side = sd] :
            sd \in {"A", "X"}}

FeedTrades ==
    {RawTrade(1, HashA, "50000", "2", "0xAAA", "0xccc"),
     RawTrade(1, HashA2, "50000", "2", "0xAAA", "0xccc"),
     RawTrade(4, HashB, "500", "1", "0xccc", "0xddd")}
    \cup {RawTrade(t, HashB, "1000", "2", "0xccc", "0xddd") : t \in {2, 3}}


VARIABLES
    \* ---- store (src/store/useStore.ts) ----
    smartMoneyMap,      \* StoreState.smartMoneyMap
    cacheLoaded,        \* smartMoneyCacheTimestamp is not null
    trades,             \* StoreState.trades, newest first (index 1 is the front)
    stats,              \* StoreState.stats
    filters,            \* StoreState.filters
    isLoading,          \* state.isLoading of useSmartMoneyLoader in the live feed
    \* ---- useProcessor (src/lib/constants.ts:824-950) ----
    procMap,            \* the smartMoneyMap the current processTrade closure captured
    batchBuffer,        \* batchBuffer.current
    batchTimeout,       \* batchTimeout.current is not null
    procStats,          \* stats.current (processed / filtered / enriched)
    flushTimers,        \* setTimeout(flushBatch) timers of the runtime not yet fired
    \* ---- history ----
    clock,              \* number of handleTrade / addTrade calls so far
    accepted,           \* the records handleTrade pushed, in order
    merged,             \* the batches flushBatch handed to addTrades, in order
    onlySubmitFlush     \* no addTrade / clearTrades call so far

VARIABLES
    sockets,            \* the WebSocket objects created so far, in creation order
    hooks,              \* the refs of each hook instance, in mount order
    mounted,            \* the instance currently mounted, 0 when none
    timeouts,           \* pending setTimeout(connect, delay) timers
    intervals,          \* live setInterval(sendHeartbeat) timers
    connectionStatus,   \* StoreState.connectionStatus
    errorMessage,       \* StoreState.errorMessage
    lastSent,           \* the last frame sent: the socket and the method
    renotified,         \* history: the handler that ran last called
                        \* setConnectionStatus with the status the store held
    messageCount,       \* StoreState.messageCount
    lastMessageTime,    \* StoreState.lastMessageTime: 0 for null, else the
                        \* ordinal of the trades frame that set it
    lastFrame,          \* history: the frame onmessage handled last
    forwarded           \* history: the events onmessage called the callback
                        \* with while it handled lastFrame, in call order

wsVars == <<sockets, hooks, mounted, timeouts, intervals,
            connectionStatus, errorMessage, lastSent, renotified,
            messageCount, lastMessageTime, lastFrame, forwarded>>

storeVars == <<smartMoneyMap, cacheLoaded, trades, stats>>
uiVars == <<filters, isLoading>>
procVars == <<procMap, batchBuffer, batchTimeout, procStats, flushTimers>>
histVars == <<clock, accepted, merged, onlySubmitFlush>>
bufVars == <<storeVars, procVars, histVars>>

ZeroStats ==
    [totalTrades |-> 0, smartTrades |-> 0, whaleTrades |-> 0, totalVolume |-> Num(0)]

\* defaultFilters, lines 63-69; selectedCoins is an array of tickers.
defaultFilters ==
    [showSmartOnly |-> FALSE, showWhalesOnly |-> FALSE, minTradeSize |-> 0,
     selectedCoins |-> <<>>]

InitBuffer ==
    /\ smartMoneyMap = EmptyMap
    /\ cacheLoaded = FALSE
    /\ trades = <<>>
    /\ stats = ZeroStats
    /\ filters = defaultFilters
    /\ procMap = EmptyMap
    /\ batchBuffer = <<>>
    /\ batchTimeout = FALSE
    /\ procStats = [processed |-> 0, filtered |-> 0, enriched |-> 0]
    /\ flushTimers = 0
    /\ clock = 0
    /\ accepted = <<>>
    /\ merged = <<>>
    /\ onlySubmitFlush = TRUE

(***************************************************************************)
(* Helpers over sequences of records.                                      *)
(***************************************************************************)
Ids(s) == {s[i].id : i \in 1..Len(s)}
SeqNos(s) == {s[i].seq : i \in 1..Len(s)}

\* The records of all batches of m, in order.
RECURSIVE Flatten(_)
Flatten(m) == IF m = <<>> THEN <<>> ELSE Head(m) \o Flatten(Tail(m))
Count(id, s) == Cardinality({i \in 1..Len(s) : s[i].id = id})

RECURSIVE CountIf(_, _)
CountIf(s, flag) ==
    IF s = <<>> THEN 0
    ELSE (IF Head(s)[flag] THEN 1 ELSE 0) + CountIf(Tail(s), flag)

RECURSIVE Volume(_)
Volume(s) ==
    IF s = <<>> THEN Num(0) ELSE NumAdd(Head(s).sizeUsd, Volume(Tail(s)))

\* A record as it travels through the buffer: the processed trade plus the
\* history field seq, the number of the call that submitted it.
Stamp(trade, n) ==
    [id |-> trade.id, timestamp |-> trade.timestamp, ticker |-> trade.ticker,
     side |-> trade.side, price |-> trade.price, sizeUsd |-> trade.sizeUsd,
     walletAddress |-> trade.walletAddress, walletLabel |-> trade.walletLabel,
     isWhale |-> trade.isWhale, isSmart |-> trade.isSmart,
     txHash |-> trade.txHash, seq |-> n]

(***************************************************************************)
(* Store actions (src/store/useStore.ts).                                  *)
(***************************************************************************)
\* Mutant of batchStats: the counters of the batch replace the stored ones.
batchStatsOfBatch(newTrades, old) ==
    [totalTrades |-> Len(newTrades),
     smartTrades |-> CountIf(newTrades, "isSmart"),
     whaleTrades |-> CountIf(newTrades, "isWhale"),
     totalVolume |-> Volume(newTrades)]

\* addTrades, lines 132-148: the counters are summed over the whole batch.
batchStats(newTrades, old) ==
    [totalTrades |-> old.totalTrades + Len(newTrades),
     smartTrades |-> old.smartTrades + CountIf(newTrades, "isSmart"),
     whaleTrades |-> old.whaleTrades + CountIf(newTrades, "isWhale"),
     totalVolume |-> NumAdd(old.totalVolume, Volume(newTrades))]

\* Mutant of uniqueNewTrades: the batch is not filtered.
uniqueNewTradesNoFilter(newTrades, old) == newTrades

\* addTrades, lines 151-152: the batch without the ids already stored.
uniqueNewTrades(newTrades, old) ==
    SelectSeq(newTrades, LAMBDA t : t.id \notin Ids(old))

\* Mutant of truncate: one record too many is kept.
truncateOffByOne(s) == Slice0(s, maxTrades + 1)

\* addTrades, line 153, and addTrade, line 121: prepend, keep the first
\* maxTrades.
truncate(s) == Slice0(s, maxTrades)

mergedTrades(newTrades, old) == truncate(uniqueNewTrades(newTrades, old) \o old)

\* addTrade, lines 109-127
AddTrade(trade) ==
    /\ UNCHANGED <<wsVars, uiVars>>
    /\ clock < MaxSubmit
    /\ clock' = clock + 1
    /\ stats' = [totalTrades |-> stats.totalTrades + 1,
                 smartTrades |-> stats.smartTrades + (IF trade.isSmart THEN 1 ELSE 0),
                 whaleTrades |-> stats.whaleTrades + (IF trade.isWhale THEN 1 ELSE 0),
                 totalVolume |-> NumAdd(stats.totalVolume, trade.sizeUsd)]
    /\ trades' = truncate(<<Stamp(trade, clock + 1)>> \o trades)
    /\ onlySubmitFlush' = FALSE
    /\ UNCHANGED <<smartMoneyMap, cacheLoaded, procVars, accepted, merged>>

\* Mutant of ClearTrades: the filters are reset with the collection.
ClearTradesResetsFilters ==
    /\ UNCHANGED <<wsVars, isLoading>>
    /\ filters' = defaultFilters
    /\ trades' = <<>>
    /\ stats' = ZeroStats
    /\ onlySubmitFlush' = FALSE
    /\ UNCHANGED <<smartMoneyMap, cacheLoaded, procVars, clock, accepted, merged>>

\* Mutant of ClearTrades: the pending list is emptied with the collection.
ClearTradesDropsPending ==
    /\ UNCHANGED <<wsVars, uiVars>>
    /\ trades' = <<>>
    /\ stats' = ZeroStats
    /\ batchBuffer' = <<>>
    /\ onlySubmitFlush' = FALSE
    /\ UNCHANGED <<smartMoneyMap, cacheLoaded, procMap, batchTimeout, procStats,
                   flushTimers, clock, accepted, merged>>

\* clearTrades, lines 161-171
ClearTrades ==
    /\ UNCHANGED <<wsVars, uiVars>>
    /\ trades' = <<>>
    /\ stats' = ZeroStats
    /\ onlySubmitFlush' = FALSE
    /\ UNCHANGED <<smartMoneyMap, cacheLoaded, procVars, clock, accepted, merged>>

\* setSmartMoneyMap, lines 97-103
SetSmartMoneyMap(map) ==
    /\ UNCHANGED <<wsVars, uiVars>>
    /\ smartMoneyMap' = map
    /\ cacheLoaded' = TRUE
    /\ UNCHANGED <<trades, stats, procVars, histVars>>

\* setFilters, lines 189-193: { ...state.filters, ...newFilters }
setFilters(old, newFilters) ==
    [k \in DOMAIN old \cup DOMAIN newFilters |->
       IF k \in DOMAIN newFilters THEN newFilters[k] ELSE old[k]]

SetFilters(newFilters) ==
    /\ filters' = setFilters(filters, newFilters)
    /\ UNCHANGED <<bufVars, wsVars, isLoading>>

\* resetFilters, lines 195-197
ResetFilters ==
    /\ filters # defaultFilters
    /\ filters' = defaultFilters
    /\ UNCHANGED <<bufVars, wsVars, isLoading>>

\* useFilteredTrades, lines 209-231: trades.filter over the four tests, each
\* of which drops the record when it is true.
useFilteredTrades(ts, f) ==
    SelectSeq(ts, LAMBDA trade :
        /\ ~(f.showSmartOnly /\ ~trade.isSmart)
        /\ ~(f.showWhalesOnly /\ ~trade.isWhale)
        /\ ~NumLt(trade.sizeUsd, Num(f.minTradeSize))
        /\ ~(/\ Len(f.selectedCoins) > 0
             /\ trade.ticker \notin {f.selectedCoins[i] : i \in 1..Len(f.selectedCoins)}))

\* The partial filter objects of the filter panel (the two toggles and the
\* size presets of src/components/FilterPanel.tsx, lines 12-22 and 40-63)
\* and a ticker whitelist.
SIZE_PRESETS == {0, 10000, 100000}
FilterUpdates ==
    {[showSmartOnly |-> b] : b \in BOOLEAN}
    \cup {[showWhalesOnly |-> b] : b \in BOOLEAN}
    \cup {[minTradeSize |-> m] : m \in SIZE_PRESETS}
    \cup {[selectedCoins |-> c] : c \in {<<>>, <<"ETH">>}}

(***************************************************************************)
(* useProcessor (src/lib/constants.ts).                                    *)
(***************************************************************************)
\* A render of the component: useSmartMoneyMap() returns the store's map and
\* useCallback rebuilds processTrade / handleTrade over it (lines 825, 906).
Render ==
    /\ UNCHANGED <<wsVars, uiVars>>
    /\ procMap # smartMoneyMap
    /\ procMap' = smartMoneyMap
    /\ UNCHANGED <<storeVars, batchBuffer, batchTimeout, procStats, flushTimers,
                   histVars>>

\* The refs of useProcessor that handleTrade works on, as one value, with
\* the history of the calls; threw says that an exception left the call.
Proc ==
    [batchBuffer |-> batchBuffer, batchTimeout |-> batchTimeout,
     flushTimers |-> flushTimers, procStats |-> procStats,
     clock |-> clock, accepted |-> accepted, threw |-> FALSE]

ProcBecomes(p) ==
    /\ batchBuffer' = p.batchBuffer
    /\ batchTimeout' = p.batchTimeout
    /\ flushTimers' = p.flushTimers
    /\ procStats' = p.procStats
    /\ clock' = p.clock
    /\ accepted' = p.accepted

\* handleTrade, lines 912-923, with the processTrade call it makes
\* (stats.current.processed++ is the first statement of processTrade).
handleTrade(p, rawTrade, map) ==
    LET r == processTrade(rawTrade, map)
        n == p.clock + 1
        counted == [p EXCEPT !.clock = n, !.procStats.processed = @ + 1]
    IN  IF Threw(r) THEN [counted EXCEPT !.threw = TRUE]
        ELSE IF ~r.emit THEN [counted EXCEPT !.procStats.filtered = @ + 1]
        ELSE [counted EXCEPT
                !.procStats.enriched = @ + (IF r.trade.isSmart THEN 1 ELSE 0),
                !.batchBuffer = Append(@, Stamp(r.trade, n)),
                !.accepted = Append(@, Stamp(r.trade, n)),
                !.batchTimeout = TRUE,
                !.flushTimers = IF p.batchTimeout THEN @ ELSE @ + 1]

\* Mutant of HandleTrade: the table is updated in place, and the call sees
\* the entries of the captured table with those of the store's added.
HandleTradeHalfUpdated(rawTrade) ==
    /\ UNCHANGED <<wsVars, uiVars>>
    /\ clock < MaxSubmit
    /\ ProcBecomes(handleTrade(Proc, rawTrade,
          [a \in DOMAIN procMap \cup DOMAIN smartMoneyMap |->
             IF a \in DOMAIN procMap THEN procMap[a] ELSE smartMoneyMap[a]]))
    /\ UNCHANGED <<storeVars, procMap, merged, onlySubmitFlush>>

\* One call of the hook's handleTrade.
HandleTrade(rawTrade) ==
    /\ UNCHANGED <<wsVars, uiVars>>
    /\ clock < MaxSubmit
    /\ ProcBecomes(handleTrade(Proc, rawTrade, procMap))
    /\ UNCHANGED <<storeVars, procMap, merged, onlySubmitFlush>>

\* Mutant of flushBatch: the buffer is not emptied after addTrades.
flushBatchKeepsBuffer ==
    /\ IF Len(batchBuffer) > 0
       THEN /\ trades' = mergedTrades(batchBuffer, trades)
            /\ stats' = batchStats(batchBuffer, stats)
            /\ merged' = Append(merged, batchBuffer)
            /\ batchBuffer' = batchBuffer
       ELSE UNCHANGED <<trades, stats, merged, batchBuffer>>
    /\ batchTimeout' = FALSE
    /\ UNCHANGED <<smartMoneyMap, cacheLoaded, procMap, procStats, clock,
                   accepted, onlySubmitFlush>>

\* Mutant of flushBatch: the timer handle is not reset.
flushBatchKeepsHandle ==
    /\ IF Len(batchBuffer) > 0
       THEN /\ trades' = mergedTrades(batchBuffer, trades)
            /\ stats' = batchStats(batchBuffer, stats)
            /\ merged' = Append(merged, batchBuffer)
            /\ batchBuffer' = <<>>
       ELSE UNCHANGED <<trades, stats, merged, batchBuffer>>
    /\ batchTimeout' = batchTimeout
    /\ UNCHANGED <<smartMoneyMap, cacheLoaded, procMap, procStats, clock,
                   accepted, onlySubmitFlush>>

\* flushBatch, lines 842-848, with the addTrades call it makes (lines
\* 129-159 of src/store/useStore.ts).
flushBatch ==
    /\ IF Len(batchBuffer) > 0
       THEN /\ trades' = mergedTrades(batchBuffer, trades)
            /\ stats' = batchStats(batchBuffer, stats)
            /\ merged' = Append(merged, batchBuffer)
            /\ batchBuffer' = <<>>
       ELSE UNCHANGED <<trades, stats, merged, batchBuffer>>
    /\ batchTimeout' = FALSE
    /\ UNCHANGED <<smartMoneyMap, cacheLoaded, procMap, procStats, clock,
                   accepted, onlySubmitFlush>>

\* The runtime fires one of the outstanding setTimeout(flushBatch) timers.
FlushTimerFires ==
    /\ UNCHANGED <<wsVars, uiVars>>
    /\ flushTimers > 0
    /\ flushTimers' = flushTimers - 1
    /\ flushBatch

\* flushBatch called directly (the hook returns it, line 948): the timer
\* handle is dropped without clearTimeout.
ManualFlush ==
    /\ UNCHANGED <<wsVars, uiVars>>
    /\ flushTimers' = flushTimers
    /\ flushBatch

\* Records a caller may hand to the store's addTrade directly.
DirectTrades ==
    {processTrade(r, FundMap).trade : r \in {x \in FeedTrades : x.tid = 2}}

(***************************************************************************)
(* useHyperliquidWS (src/hooks/useHyperliquidWS.ts).                       *)
(*                                                                         *)
(* Every mount of the component is a hook instance with refs of its own    *)
(* (useRef); the handlers of a socket are closures over the refs of the    *)
(* instance that created it and stay alive with the socket.  The store's   *)
(* connectionStatus and errorMessage are shared by all instances.          *)
(***************************************************************************)
NoMessage == "null"

\* A frame as JSON.parse returns it: message.channel and message.data, the
\* data an array, a single object, or absent.
NoData == [kind |-> "none"]
ArrayOf(items) == [kind |-> "array", items |-> items]
ObjectOf(value) == [kind |-> "object", value |-> value]
Message(channel, data) == [channel |-> channel, data |-> data]
NothingReceived == Message("none", NoData)
NoFrame == [sock |-> 0, method |-> "none"]
Frame(s, method) == [sock |-> s, method |-> method]

InitWS ==
    /\ sockets = <<>>
    /\ hooks = <<>>
    /\ mounted = 0
    /\ timeouts = {}
    /\ intervals = {}
    /\ connectionStatus = "disconnected"
    /\ errorMessage = NoMessage
    /\ lastSent = NoFrame
    /\ renotified = FALSE
    /\ messageCount = 0
    /\ lastMessageTime = 0
    /\ lastFrame = NothingReceived
    /\ forwarded = <<>>

\* The connector's part of the state as one value, so that a handler is a
\* function from state to state and handlers compose.
World ==
    [sockets |-> sockets, hooks |-> hooks, timeouts |-> timeouts,
     intervals |-> intervals,
     connectionStatus |-> connectionStatus, errorMessage |-> errorMessage,
     lastSent |-> lastSent, renotified |-> FALSE,
     messageCount |-> messageCount, lastMessageTime |-> lastMessageTime,
     lastFrame |-> lastFrame, forwarded |-> forwarded]

Becomes(w) ==
    /\ sockets' = w.sockets
    /\ hooks' = w.hooks
    /\ timeouts' = w.timeouts
    /\ intervals' = w.intervals
    /\ connectionStatus' = w.connectionStatus
    /\ errorMessage' = w.errorMessage
    /\ lastSent' = w.lastSent
    /\ renotified' = w.renotified
    /\ messageCount' = w.messageCount
    /\ lastMessageTime' = w.lastMessageTime
    /\ lastFrame' = w.lastFrame
    /\ forwarded' = w.forwarded

\* Refs of a fresh instance, lines 35-39.  failures is history, not a ref:
\* the number of abnormal closures of the instance's sockets since the last
\* socket of the instance that opened or closed cleanly.
NewHook ==
    [wsRef |-> 0, statusRef |-> "disconnected", reconnectAttemptsRef |-> 0,
     heartbeatRef |-> 0, reconnectTimeoutRef |-> 0, failures |-> 0]

\* The id setTimeout / setInterval returns: one that no live timer and no
\* ref holds.
TimerIdsInUse(w) ==
    {t.id : t \in w.timeouts} \cup {t.id : t \in w.intervals}
      \cup {w.hooks[i].heartbeatRef : i \in 1..Len(w.hooks)}
      \cup {w.hooks[i].reconnectTimeoutRef : i \in 1..Len(w.hooks)}
NewTimerId(w) ==
    CHOOSE n \in 1..(Cardinality(TimerIdsInUse(w)) + 1) : n \notin TimerIdsInUse(w)

Live(sock) == sock.readyState \in {"CONNECTING", "OPEN"}

\* setConnectionStatus of the store (src/store/useStore.ts:173-175), the
\* status sink.
setConnectionStatus(w, status) ==
    [w EXCEPT !.connectionStatus = status,
              !.renotified = @ \/ (w.connectionStatus = status)]

\* Mutant of updateStatus: the sink is notified without the guard.
updateStatusNoGuard(w, i, newStatus) ==
    setConnectionStatus([w EXCEPT !.hooks[i].statusRef = newStatus], newStatus)

\* updateStatus, lines 62-67
updateStatus(w, i, newStatus) ==
    IF w.hooks[i].statusRef # newStatus
    THEN setConnectionStatus([w EXCEPT !.hooks[i].statusRef = newStatus],
                             newStatus)
    ELSE w

\* clearTimers, lines 69-78
clearTimers(w, i) ==
    [w EXCEPT
       !.intervals = {t \in @ : t.id # w.hooks[i].heartbeatRef},
       !.timeouts = {t \in @ : t.id # w.hooks[i].reconnectTimeoutRef},
       !.hooks[i].heartbeatRef = 0,
       !.hooks[i].reconnectTimeoutRef = 0]

\* WebSocket.close(code): a connecting socket is failed (its close event
\* will be abnormal, after an error event), an open one starts the closing
\* handshake with the code; no effect on a closing or closed socket.
\* closeCode is the code of the close() call whose handshake is in
\* progress, 0 when there is none.
closeSocket(w, s, code) ==
    IF w.sockets[s].readyState = "CONNECTING"
    THEN [w EXCEPT !.sockets[s].readyState = "CLOSING", !.sockets[s].failed = TRUE,
                   !.sockets[s].closeCode = code]
    ELSE IF w.sockets[s].readyState = "OPEN"
    THEN [w EXCEPT !.sockets[s].readyState = "CLOSING",
                   !.sockets[s].closeCode = code]
    ELSE w

\* connect, lines 86-210 (the handlers it installs are the operators below)
connect(w, i) ==
    LET r == w.hooks[i].wsRef IN
    IF r # 0 /\ Live(w.sockets[r])
    THEN w
    ELSE LET w1 == updateStatus(w, i, "connecting")
             s == Len(w.sockets) + 1
         IN  [w1 EXCEPT
                !.errorMessage = NoMessage,
                !.sockets = Append(@, [inst |-> i, readyState |-> "CONNECTING",
                                       failed |-> FALSE, closeCode |-> 0]),
                !.hooks[i].wsRef = s]

\* Mutant of onopen: the attempt counter is not reset.
onopenKeepsAttempts(w, s) ==
    LET i == w.sockets[s].inst
        w1 == updateStatus(w, i, "connected")
        id == NewTimerId(w1)
    IN  [w1 EXCEPT
           !.hooks[i].failures = 0,
           !.lastSent = Frame(s, "subscribe BTC"),
           !.intervals = @ \cup {[id |-> id, inst |-> i]},
           !.hooks[i].heartbeatRef = id]

\* ws.onopen, lines 102-131.  The one-shot timer of lines 118-127 only
\* sends a second subscribe frame on this socket if it is still open; it
\* touches no ref and is not part of the state.
onopen(w, s) ==
    LET i == w.sockets[s].inst
        w1 == updateStatus(w, i, "connected")
        id == NewTimerId(w1)
    IN  [w1 EXCEPT
           !.hooks[i].reconnectAttemptsRef = 0,
           !.hooks[i].failures = 0,
           !.lastSent = Frame(s, "subscribe BTC"),
           !.intervals = @ \cup {[id |-> id, inst |-> i]},
           !.hooks[i].heartbeatRef = id]

\* ws.onerror, lines 174-178
onerror(w, s) ==
    [updateStatus(w, w.sockets[s].inst, "error")
       EXCEPT !.errorMessage = "WebSocket connection error"]

\* Mutant of onclose: the close code is not looked at, a clean close is
\* answered like an abnormal one.
oncloseIgnoresCode(w, s, code) ==
    LET i == w.sockets[s].inst
        w1 == [clearTimers(w, i) EXCEPT !.hooks[i].wsRef = 0]
        attempts == w1.hooks[i].reconnectAttemptsRef
        id == NewTimerId(w1)
    IN  IF attempts < MAX_RECONNECT_ATTEMPTS
        THEN [w1 EXCEPT
                !.hooks[i].reconnectAttemptsRef = attempts + 1,
                !.timeouts = @ \cup {[id |-> id, inst |-> i,
                                      delay |-> RECONNECT_DELAY_BASE * (attempts + 1)]},
                !.hooks[i].reconnectTimeoutRef = id]
        ELSE updateStatus(w1, i, "error")

\* Mutant of reconnectDelay: every reconnect waits the base delay.
reconnectDelayConstant(attempts) == RECONNECT_DELAY_BASE

\* The delay of the reconnect, line 194.
reconnectDelay(attempts) == RECONNECT_DELAY_BASE * attempts

\* Mutant of mayReconnect: the attempts are not limited.
mayReconnectAlways(attempts) == TRUE

\* The condition of the reconnect, line 192.
mayReconnect(attempts) == attempts < MAX_RECONNECT_ATTEMPTS

\* ws.onclose, lines 180-204
onclose(w, s, code) ==
    LET i == w.sockets[s].inst
        w1 == [clearTimers(w, i) EXCEPT !.hooks[i].wsRef = 0]
        attempts == w1.hooks[i].reconnectAttemptsRef
        id == NewTimerId(w1)
    IN  IF code = NormalClosure
        THEN [updateStatus(w1, i, "disconnected") EXCEPT !.hooks[i].failures = 0]
        ELSE LET w2 == [w1 EXCEPT !.hooks[i].failures = @ + 1] IN
             IF mayReconnect(attempts)
             THEN [w2 EXCEPT
                     !.hooks[i].reconnectAttemptsRef = attempts + 1,
                     !.errorMessage = <<"Reconnecting...", attempts + 1,
                                        MAX_RECONNECT_ATTEMPTS>>,
                     !.timeouts = @ \cup {[id |-> id, inst |-> i,
                                           delay |-> reconnectDelay(attempts + 1)]},
                     !.hooks[i].reconnectTimeoutRef = id]
             ELSE [updateStatus(w2, i, "error")
                     EXCEPT !.errorMessage =
                              "Max reconnection attempts reached. Please refresh."]

\* Mutant of sendHeartbeat: the ping is sent on whatever socket is referenced.
sendHeartbeatNoGuard(w, i) ==
    IF w.hooks[i].wsRef # 0
    THEN [w EXCEPT !.lastSent = [sock |-> w.hooks[i].wsRef, method |-> "ping"]]
    ELSE w

\* sendHeartbeat, lines 80-84
sendHeartbeat(w, i) ==
    LET r == w.hooks[i].wsRef IN
    IF r # 0 /\ w.sockets[r].readyState = "OPEN"
    THEN [w EXCEPT !.lastSent = Frame(r, "ping")]
    ELSE w

\* coinsRef.current: the live feed passes no coins option, so the default
\* [] of line 30.
coinsRef == {}

\* Array.isArray(message.data) ? message.data : [message.data], lines 154-156
isArray(data) == data.kind = "array"
tradesOf(data) == IF isArray(data) THEN data.items ELSE <<data.value>>

\* The loop of lines 160-167 over the events not yet handled.  st.p is the
\* processor the callback (onTradeRef.current, the live feed's handleTrade)
\* works on, st.log the calls made.  An exception of the callback leaves the
\* loop: the events behind it are not handled.
RECURSIVE forwardEach(_, _, _)
forwardEach(st, events, map) ==
    IF events = <<>> \/ st.p.threw THEN st
    ELSE LET trade == Head(events) IN
         IF coinsRef # {} /\ trade.coin \notin coinsRef
         THEN forwardEach(st, Tail(events), map)
         ELSE forwardEach([p |-> handleTrade(st.p, trade, map),
                           log |-> Append(st.log, trade)],
                          Tail(events), map)

\* JSON.parse(event.data), line 135: a frame that is not JSON (or whose JSON
\* is not an object, so that reading message.channel throws) raises.
parses(message) == "syntaxError" \notin DOMAIN message

\* Mutant of catchError: an exception in the handler is reported as a
\* connection error.
catchErrorSetsStatus(w) ==
    [w EXCEPT !.connectionStatus = "error",
              !.errorMessage = "WebSocket connection error"]

\* The catch block of lines 169-171: the error is logged, nothing else.
catchError(w) == w

\* ws.onmessage, lines 133-172.  The result is the connector's and the
\* store's state (w) and the processor's (p); the catch of line 169 ends
\* an exception here.
onmessage(w, p, message, map) ==
    LET seen == [w EXCEPT !.lastFrame = message, !.forwarded = <<>>] IN
    IF ~parses(message) THEN [w |-> catchError(seen), p |-> p]
    ELSE IF message.channel = "pong" THEN [w |-> seen, p |-> p]
    ELSE IF message.channel = "subscriptionResponse" THEN [w |-> seen, p |-> p]
    ELSE IF message.channel = "trades" /\ message.data # NoData
    THEN LET st == forwardEach([p |-> p, log |-> <<>>],
                               tradesOf(message.data), map)
             counted == [seen EXCEPT !.messageCount = @ + 1,
                                     !.lastMessageTime = w.messageCount + 1,
                                     !.forwarded = st.log]
         IN  [w |-> IF st.p.threw THEN catchError(counted) ELSE counted,
              p |-> [st.p EXCEPT !.threw = FALSE]]
    ELSE [w |-> seen, p |-> p]

\* effect cleanup, lines 223-231
cleanup(w, i) ==
    LET w1 == clearTimers(w, i)
        r == w1.hooks[i].wsRef
        w2 == IF r # 0 THEN [closeSocket(w1, r, NormalClosure) EXCEPT !.hooks[i].wsRef = 0] ELSE w1
    IN  [w2 EXCEPT !.hooks[i].statusRef = "disconnected"]

\* manualConnect, lines 238-243
manualConnect(w, i) ==
    LET r == w.hooks[i].wsRef IN
    IF r # 0 /\ w.sockets[r].readyState = "OPEN" THEN w
    ELSE IF r # 0 THEN closeSocket(w, r, NormalClosure)
    ELSE w

\* manualDisconnect, lines 245-264
manualDisconnect(w, i) ==
    LET w1 == clearTimers(w, i)
        r == w1.hooks[i].wsRef
        w2 == IF r # 0 THEN [closeSocket(w1, r, NormalClosure) EXCEPT !.hooks[i].wsRef = 0] ELSE w1
        w3 == [w2 EXCEPT !.hooks[i].reconnectAttemptsRef = 0]
    IN  IF w3.hooks[i].statusRef # "disconnected"
        THEN setConnectionStatus(
                 [w3 EXCEPT !.hooks[i].statusRef = "disconnected"],
                 "disconnected")
        ELSE w3

\* The component mounts: a new hook instance; the effect (lines 60-233)
\* runs once and connects when autoConnect is set.
Mount(autoConnect) ==
    /\ UNCHANGED <<bufVars, uiVars>>
    /\ mounted = 0
    /\ Len(hooks) < MaxMounts
    /\ autoConnect => Len(sockets) < MaxSockets
    /\ LET i == Len(hooks) + 1
           w == [World EXCEPT !.hooks = Append(@, NewHook)]
       IN  /\ Becomes(IF autoConnect THEN connect(w, i) ELSE w)
           /\ mounted' = i

\* The component unmounts: the effect's cleanup runs.
Unmount ==
    /\ UNCHANGED <<bufVars, uiVars>>
    /\ mounted # 0
    /\ Becomes(cleanup(World, mounted))
    /\ mounted' = 0

\* The live feed mounts (src/unnamed/part_008:25-41): a fresh loader, whose
\* isLoading starts as true and whose effect starts the fetch, and a fresh
\* connector that is passed autoConnect: !isLoadingCache.  The effect of the
\* connector runs at this mount; later renders pass a new autoConnect,
\* which the effect, with its empty dependency list, never reads again.
MountLiveFeed ==
    /\ UNCHANGED <<bufVars, filters>>
    /\ mounted = 0
    /\ Len(hooks) < MaxMounts
    /\ isLoading' = TRUE
    /\ LET isLoadingCache == isLoading'
           autoConnect == ~isLoadingCache
           i == Len(hooks) + 1
           w == [World EXCEPT !.hooks = Append(@, NewHook)]
       IN  /\ autoConnect => Len(sockets) < MaxSockets
           /\ Becomes(IF autoConnect THEN connect(w, i) ELSE w)
           /\ mounted' = i

\* loadSmartMoneyCache settles (src/unnamed/part_001:29-81): the fetched
\* table, or the empty one after a failure, goes to the store and isLoading
\* becomes false.
LoadFinishes(map) ==
    /\ Len(hooks) > 0
    /\ isLoading
    /\ smartMoneyMap' = map
    /\ cacheLoaded' = TRUE
    /\ isLoading' = FALSE
    /\ UNCHANGED <<trades, stats, procVars, histVars, wsVars, filters>>

ManualConnect ==
    /\ UNCHANGED <<bufVars, uiVars>>
    /\ mounted # 0
    /\ Becomes(manualConnect(World, mounted))
    /\ UNCHANGED mounted

ManualDisconnect ==
    /\ UNCHANGED <<bufVars, uiVars>>
    /\ mounted # 0
    /\ Becomes(manualDisconnect(World, mounted))
    /\ UNCHANGED mounted

\* The connection of socket s is established.
SocketOpens(s) ==
    /\ UNCHANGED <<bufVars, uiVars>>
    /\ sockets[s].readyState = "CONNECTING"
    /\ Becomes(onopen([World EXCEPT !.sockets[s].readyState = "OPEN"], s))
    /\ UNCHANGED mounted

\* The closing handshake of socket s starts at the peer: the browser sets
\* readyState to CLOSING and runs no handler until the close event.
SocketClosing(s) ==
    /\ UNCHANGED <<bufVars, uiVars>>
    /\ sockets[s].readyState = "OPEN"
    /\ Becomes([World EXCEPT !.sockets[s].readyState = "CLOSING"])
    /\ UNCHANGED mounted

\* The connection of socket s ends: the browser sets readyState to CLOSED
\* and, in one task, fires error (when the connection failed) and close.
\* A socket that never opened, or was closed while connecting, fails.
SocketCloses(s, code, withError) ==
    /\ UNCHANGED <<bufVars, uiVars>>
    /\ sockets[s].readyState \in {"CONNECTING", "OPEN", "CLOSING"}
    /\ (sockets[s].readyState = "CONNECTING" \/ sockets[s].failed)
          => (code = AbnormalClosure /\ withError)
    /\ code = NormalClosure => ~withError
    /\ LET w == [World EXCEPT !.sockets[s].readyState = "CLOSED",
                              !.sockets[s].closeCode = 0]
       IN  Becomes(onclose(IF withError THEN onerror(w, s) ELSE w, s, code))
    /\ UNCHANGED mounted

\* A reconnect timer fires: connect() of the instance that scheduled it.
\* limit bounds the number of sockets created in a behaviour.
ReconnectTimerFiresWithin(t, limit) ==
    /\ UNCHANGED <<bufVars, uiVars>>
    /\ t \in timeouts
    /\ Len(sockets) < limit
    /\ Becomes(connect([World EXCEPT !.timeouts = @ \ {t}], t.inst))
    /\ UNCHANGED mounted

ReconnectTimerFires(t) == ReconnectTimerFiresWithin(t, MaxSockets)

\* Events of the feed in the frames below: two ordinary trades, a trade
\* whose price is not a number, and a trade without its users pair.
Good1 == RawTrade(2, HashB, "1000", "2", "0xccc", "0xddd")
Good2 == RawTrade(3, HashB, "1000", "2", "0xccc", "0xddd")
BadPrice == RawTrade(5, HashB, "abc", "2", "0xccc", "0xddd")
BadUsers == [RawTrade(6, HashB, "1000", "2", "0xccc", "0xddd")
               EXCEPT !.users = NoUsers]
\* An object that is not a trade: none of the fields of one.
Junk == [RawTrade(7, Undefined, Undefined, Undefined, "0xccc", "0xddd")
           EXCEPT !.users = NoUsers, !.coin = Undefined, !.side = Undefined]
\* A frame that is not JSON.
Unparseable == [channel |-> Undefined, data |-> NoData, syntaxError |-> TRUE]

\* Frames the server sends.
Frames ==
    {Unparseable,
     Message("trades", ObjectOf(Junk)),
     Message("pong", NoData),
     Message("subscriptionResponse", ObjectOf(Good1)),
     Message("allMids", ArrayOf(<<Good1>>)),
     Message("trades", NoData),
     Message("trades", ObjectOf(Good1)),
     Message("trades", ArrayOf(<<>>)),
     Message("trades", ArrayOf(<<Good1, Good2>>)),
     Message("trades", ArrayOf(<<BadPrice>>)),
     Message("trades", ArrayOf(<<Good1, BadPrice, Good2>>)),
     Message("trades", ArrayOf(<<BadUsers, Good1>>)),
     Message("trades", ArrayOf(<<Good1, BadUsers, Good2>>))}

\* A frame arrives on the open socket s.
OnMessage(s, message) ==
    /\ sockets[s].readyState = "OPEN"
    /\ (message.channel = "trades" /\ message.data # NoData)
          => /\ messageCount < MaxFrames
             /\ clock + Len(tradesOf(message.data)) <= MaxSubmit
    /\ LET r == onmessage(World, Proc, message, procMap)
       IN  Becomes(r.w) /\ ProcBecomes(r.p)
    /\ UNCHANGED <<mounted, storeVars, procMap, merged, onlySubmitFlush,
                   uiVars>>

\* A heartbeat interval ticks.
HeartbeatTick(t) ==
    /\ UNCHANGED <<bufVars, uiVars>>
    /\ t \in intervals
    /\ Becomes(sendHeartbeat(World, t.inst))
    /\ UNCHANGED mounted

NextWS ==
    \/ \E autoConnect \in BOOLEAN : Mount(autoConnect)
    \/ Unmount
    \/ ManualConnect
    \/ ManualDisconnect
    \/ \E s \in 1..Len(sockets) : SocketOpens(s)
    \/ \E s \in 1..Len(sockets), code \in {NormalClosure, AbnormalClosure},
          withError \in BOOLEAN : SocketCloses(s, code, withError)
    \/ \E t \in timeouts : ReconnectTimerFires(t)
    \/ \E t \in intervals : HeartbeatTick(t)

NextBuffer ==
    \/ \E rawTrade \in FeedTrades : HandleTrade(rawTrade)
    \/ FlushTimerFires
    \/ ManualFlush
    \/ \E trade \in DirectTrades : AddTrade(trade)
    \/ ClearTrades
    \/ \E map \in SmartMaps : SetSmartMoneyMap(map)
    \/ Render

vars == <<bufVars, wsVars, uiVars>>

\* isLoading: the initial state of useState in useSmartMoneyLoader
\* (src/unnamed/part_001:22-27).
Init == InitBuffer /\ InitWS /\ isLoading = TRUE

\* The batching buffer and the store.
Spec == Init /\ [][NextBuffer]_vars

\* The stream connector.
SpecWS == Init /\ [][NextWS]_vars

\* The reconnect policy of one connector that is never stopped: the sockets
\* open and close, the reconnect timers fire, the connect control is used.
NextReconnect ==
    \/ \E autoConnect \in BOOLEAN : Mount(autoConnect)
    \/ ManualConnect
    \/ \E s \in 1..Len(sockets) : SocketOpens(s)
    \/ \E s \in 1..Len(sockets), code \in {NormalClosure, AbnormalClosure},
          withError \in BOOLEAN : SocketCloses(s, code, withError)
    \/ \E t \in timeouts : ReconnectTimerFiresWithin(t, MaxChain)
    \/ \E t \in intervals : HeartbeatTick(t)

SpecReconnect == Init /\ [][NextReconnect]_vars

\* The heartbeat: the connector, mounted with autoConnect as the live feed
\* mounts it, with the sockets' closing handshakes as steps of their own, so
\* that timers tick between the start of a closing handshake and the close
\* event.
NextHeartbeat ==
    \/ Mount(TRUE)
    \/ Unmount
    \/ ManualConnect
    \/ ManualDisconnect
    \/ \E s \in 1..Len(sockets) : SocketOpens(s)
    \/ \E s \in 1..Len(sockets) : SocketClosing(s)
    \/ \E s \in 1..Len(sockets), code \in {NormalClosure, AbnormalClosure},
          withError \in BOOLEAN : SocketCloses(s, code, withError)
    \/ \E t \in timeouts : ReconnectTimerFires(t)
    \/ \E t \in intervals : HeartbeatTick(t)

SpecHeartbeat == Init /\ [][NextHeartbeat]_vars

\* The page of the live feed: the feed mounts and unmounts, its loader
\* settles, the component renders, and the filter panel is used.  The fetch
\* settles and React renders: both are fair.
NextLiveFeed ==
    \/ MountLiveFeed
    \/ Unmount
    \/ \E map \in {EmptyMap, FundMap} : LoadFinishes(map)
    \/ Render
    \/ \E newFilters \in FilterUpdates : SetFilters(newFilters)
    \/ ResetFilters

SpecLiveFeed ==
    /\ Init /\ [][NextLiveFeed]_vars
    /\ WF_vars(\E map \in {EmptyMap, FundMap} : LoadFinishes(map))
    /\ WF_vars(Render)

\* The attempt counter: one connector whose sockets open and close, whose
\* reconnect timers fire and which is stopped with the disconnect control.
NextAttempts ==
    \/ Mount(TRUE)
    \/ ManualDisconnect
    \/ \E s \in 1..Len(sockets) : SocketOpens(s)
    \/ \E s \in 1..Len(sockets), code \in {NormalClosure, AbnormalClosure},
          withError \in BOOLEAN : SocketCloses(s, code, withError)
    \/ \E t \in timeouts : ReconnectTimerFiresWithin(t, MaxChain)

SpecAttempts == Init /\ [][NextAttempts]_vars

\* The feed: the connector of the live feed connects, the frames of the
\* server go through onmessage to handleTrade, and the flush timers fire.
NextFeed ==
    \/ \E autoConnect \in BOOLEAN : Mount(autoConnect)
    \/ \E s \in 1..Len(sockets) : SocketOpens(s)
    \/ \E s \in 1..Len(sockets), message \in Frames : OnMessage(s, message)
    \/ FlushTimerFires

SpecFeed == Init /\ [][NextFeed]_vars

\* The processing step: the loader installs a lookup table, the component
\* renders, and handleTrade is called with one raw trade after another.
NextProcess ==
    \/ \E map \in {FundMap, BothMap} : SetSmartMoneyMap(map)
    \/ Render
    \/ \E rawTrade \in ProcessInputs : HandleTrade(rawTrade)

SpecProcess == Init /\ [][NextProcess]_vars

\* The view: records of two tickers and of several sizes, as processTrade
\* builds them (one from a price that is not a number), are added to the
\* store while the filter panel changes the filters and clears the
\* collection; the loader installs the table, and the connector connects and
\* loses its socket.
ViewTrades ==
    {RawTrade(1, HashA, "50000", "2", "0xAAA", "0xccc"),
     [RawTrade(2, HashB, "1000", "2", "0xccc", "0xddd") EXCEPT !.coin = "ETH"],
     RawTrade(5, HashB, "abc", "2", "0xccc", "0xddd")}
ViewRecords == {processTrade(r, FundMap).trade : r \in ViewTrades}

NextView ==
    \/ \E newFilters \in FilterUpdates : SetFilters(newFilters)
    \/ ResetFilters
    \/ ClearTrades
    \/ SetSmartMoneyMap(FundMap)
    \/ \E trade \in ViewRecords : AddTrade(trade)
    \/ Mount(TRUE)
    \/ \E s \in 1..Len(sockets) : SocketCloses(s, AbnormalClosure, TRUE)

SpecView == Init /\ [][NextView]_vars

\* The batching of useProcessor alone: submissions, timer-fired flushes and
\* manual flushes.  The runtime fires every pending setTimeout timer.
NextBatching ==
    \/ \E rawTrade \in FeedTrades : HandleTrade(rawTrade)
    \/ FlushTimerFires
    \/ ManualFlush

SpecFair == Init /\ [][NextBatching]_vars /\ WF_vars(FlushTimerFires)

(***************************************************************************)
(* Claims about the batching buffer and the store.                         *)
(***************************************************************************)
\* A step in which flushBatch handed batchBuffer to addTrades.
FlushStep == merged' # merged

Range(s) == {s[i] : i \in 1..Len(s)}

\* C1: on every flush of a batch into the collection, each aggregate
\* counter increases by the sum over only the records of the batch whose id
\* is not already in the collection.
C1_CountersOnlyNew ==
    [][FlushStep =>
         stats' = batchStats(uniqueNewTrades(batchBuffer, trades), stats)]_vars

\* C2: when a flush hands over a record whose identifier has exactly one
\* entry in the collection (the first delivery, still retained), the
\* redelivered record is not admitted: afterwards every entry with that
\* identifier is the first one, there is at most one, and there is exactly
\* one unless this flush filled the collection to capacity.
C2_IdempotentDedup ==
    [][\A t \in Range(batchBuffer) :
         (FlushStep /\ Count(t.id, trades) = 1) =>
            /\ Count(t.id, trades') <= 1
            /\ \A e \in Range(trades') : e.id = t.id => e \in Range(trades)
            /\ Len(trades') < maxTrades => Count(t.id, trades') = 1]_vars

\* C2 witness: the same identifier was handed over in two different flush
\* cycles and the collection holds exactly one entry with it.
C2_Witness ==
    \E i, j \in 1..Len(merged) :
        /\ i < j
        /\ \E a \in Range(merged[i]), b \in Range(merged[j]) :
              /\ a.id = b.id
              /\ Count(a.id, trades) = 1
              /\ a \in Range(trades)

\* C3: no two entries of the main collection share an identifier.
C3_UniqueIds ==
    \A i, j \in 1..Len(trades) : i # j => trades[i].id # trades[j].id

\* C4: after more than maxTrades records with distinct identifiers were
\* submitted and all of them flushed (no other store call), the collection
\* holds exactly maxTrades entries, the most recently submitted ones.
C4_BoundedRetention ==
    (/\ onlySubmitFlush
     /\ batchBuffer = <<>>
     /\ Len(accepted) > maxTrades
     /\ Cardinality(Ids(accepted)) = Len(accepted))
    => /\ Len(trades) = maxTrades
       /\ Range(trades) =
            {accepted[k] : k \in (Len(accepted) - maxTrades + 1)..Len(accepted)}

\* C5: the main collection never holds more than maxTrades entries.
C5_Capacity == Len(trades) <= maxTrades

\* C5 witness: a single batch larger than maxTrades was flushed and the
\* collection is full.
C5_Witness ==
    /\ \E k \in 1..Len(merged) : Len(merged[k]) > maxTrades
    /\ Len(trades) = maxTrades

\* C6: of any two entries of the main collection, the one submitted later
\* is closer to the front.
C6_NewestFirst ==
    \A i, j \in 1..Len(trades) : i < j => trades[i].seq > trades[j].seq

\* C7: the records handed to addTrades so far, followed by the pending
\* ones, are exactly the records handleTrade accepted, in submission order:
\* each accepted record is handed over in exactly one flush, each batch is
\* what was submitted since the previous flush, and no flush hands over an
\* empty batch.
C7_ExactlyOnce ==
    /\ Flatten(merged) \o batchBuffer = accepted
    /\ \A k \in 1..Len(merged) : merged[k] # <<>>

\* C7 witness: two flushes have handed over batches, a stale timer is still
\* outstanding, and a further record is pending.
C7_Witness ==
    /\ Len(merged) >= 2
    /\ batchBuffer # <<>>
    /\ flushTimers >= 2

\* C8: at most one flush timer is outstanding.
C8_SingleFlushTimer == flushTimers <= 1

\* C9: whenever the pending list is nonempty the timer handle is set and a
\* flush timer is outstanding, and (timers firing fairly) every pending
\* record is eventually handed to the merge step.
C9_EventualFlush ==
    /\ [](batchBuffer # <<>> => (batchTimeout /\ flushTimers >= 1))
    /\ \A n \in 1..MaxSubmit :
          (n \in SeqNos(batchBuffer)) ~> (n \in SeqNos(Flatten(merged)))

\* C9 witness: after a manual flush left its timer outstanding, a record is
\* pending again with a second timer scheduled for it.
C9_Witness ==
    /\ merged # <<>>
    /\ batchBuffer # <<>>
    /\ batchTimeout
    /\ flushTimers = 2


(***************************************************************************)
(* Claims about the stream connector.                                      *)
(***************************************************************************)
LiveSockets == {s \in 1..Len(sockets) : Live(sockets[s])}

\* C10: at most one socket is in the open-or-connecting state.
C10_SingleLiveConnection == Cardinality(LiveSockets) <= 1

(***************************************************************************)
(* Claims about the stream connector's lifecycle.                          *)
(***************************************************************************)
\* Instance i is at rest: it holds no socket and no reconnect timer, none of
\* its reconnect timers is outstanding and none of its sockets is open or
\* connecting.  This is the state manualDisconnect and the cleanup leave.
Stopped(i) ==
    /\ hooks[i].wsRef = 0
    /\ hooks[i].reconnectTimeoutRef = 0
    /\ \A t \in timeouts : t.inst # i
    /\ \A s \in 1..Len(sockets) : sockets[s].inst = i => ~Live(sockets[s])

\* C11: after a deliberate stop (manualDisconnect or the unmount cleanup)
\* returns, the instance has no reconnect timer outstanding, and from then on
\* it schedules no reconnect and makes no connection attempt, whatever state
\* its socket was in and whatever close code the later close event carries
\* (no operation of the hook starts a stopped instance again: manualConnect
\* never connects, and a new mount is a new instance).
C11_NoReconnectAfterStop ==
    /\ [][\A i \in 1..Len(hooks) :
            (i = mounted /\ (ManualDisconnect \/ Unmount)) => Stopped(i)']_vars
    /\ [][\A i \in 1..Len(hooks) : Stopped(i) => Stopped(i)']_vars

StatusTransitions ==
    {<<"disconnected", "connecting">>, <<"connecting", "connected">>,
     <<"connected", "disconnected">>, <<"connected", "error">>,
     <<"connected", "connecting">>}

\* C14: every change of the reported connection status (the store's
\* connectionStatus) is disconnected->connecting, connecting->connected,
\* connected->disconnected, connected->error or connected->connecting; error
\* is never left for connecting and connecting never goes to error or
\* disconnected.
C14_StatusTransitions ==
    [][connectionStatus' # connectionStatus
         => <<connectionStatus, connectionStatus'>> \in StatusTransitions]_vars

HasLiveSocket(i) ==
    hooks[i].wsRef # 0 /\ Live(sockets[hooks[i].wsRef])

\* C16: connect (the internal connect, run by a reconnect timer, or the
\* exported manual connect control) invoked while the instance's socket is
\* open or connecting changes nothing: no socket is created, the socket is
\* not closed, and status, timers and the attempt counter are unchanged.
C16_StartIdempotent ==
    /\ [][(mounted # 0 /\ HasLiveSocket(mounted) /\ ManualConnect)
            => UNCHANGED wsVars]_vars
    /\ [][\A t \in timeouts :
            (HasLiveSocket(t.inst) /\ ReconnectTimerFires(t))
              => UNCHANGED <<sockets, hooks, intervals, connectionStatus,
                             errorMessage, lastSent>>]_vars

\* C17: the status sink (setConnectionStatus) is never called with the
\* status it was last notified of (the status the store holds): every call
\* is an actual change of the status.
C17_NoRedundantNotification == ~renotified

(***************************************************************************)
(* Claims about the reconnect policy (SpecReconnect).                      *)
(***************************************************************************)
\* The reconnect timers of instance i that are outstanding in the next state.
TimersOf(i) == {t \in timeouts' : t.inst = i}

Exhausted(i) == hooks[i].failures > MAX_RECONNECT_ATTEMPTS

\* C13: when an abnormal closure occurs after MAX_RECONNECT_ATTEMPTS
\* consecutive reconnect attempts have been used, the status becomes error and
\* no reconnect timer is scheduled; from then on the connector makes no
\* connection attempt and the status stays error (no operation but the manual
\* controls changes anything).
C13_ExhaustedIsTerminal ==
    /\ [](\A i \in 1..Len(hooks) : Exhausted(i) =>
            /\ hooks[i].statusRef = "error"
            /\ connectionStatus = "error"
            /\ hooks[i].wsRef = 0
            /\ \A t \in timeouts : t.inst # i
            /\ \A s \in 1..Len(sockets) :
                  sockets[s].inst = i => sockets[s].readyState = "CLOSED")
    /\ [][\A i \in 1..Len(hooks) : Exhausted(i) =>
            \/ Exhausted(i)' /\ Len(sockets') = Len(sockets)
            \/ ManualConnect]_vars

\* The sixth socket in a row has failed.
C13_Witness ==
    /\ Len(sockets) = MAX_RECONNECT_ATTEMPTS + 1
    /\ \E i \in 1..Len(hooks) :
          Exhausted(i) /\ hooks[i].reconnectAttemptsRef = MAX_RECONNECT_ATTEMPTS

(***************************************************************************)
(* Claims about the frames of the feed (SpecFeed).                         *)
(***************************************************************************)
IsTradesFrame(message) == message.channel = "trades" /\ message.data # NoData

\* C18: control frames (pong, subscriptionResponse) and frames of other
\* channels are never forwarded to the callback; of a trades frame every
\* event is forwarded individually, exactly once, in arrival order.  (Frames
\* are handled one at a time in the order they arrive.)
C18_MessageForwarding ==
    forwarded = IF IsTradesFrame(lastFrame) THEN tradesOf(lastFrame.data)
                ELSE <<>>

NonNumeric(rawTrade) ==
    parseFloat(rawTrade.px).nan \/ parseFloat(rawTrade.sz).nan

\* C19: a raw event whose price or size string is not a number is discarded
\* (no record is submitted to the buffer) and the filtered counter is
\* incremented by one.
C19_ParseFailureDiscarded ==
    [][\A s \in 1..Len(sockets), message \in Frames :
         (/\ OnMessage(s, message)
          /\ IsTradesFrame(message)
          /\ Len(tradesOf(message.data)) = 1
          /\ NonNumeric(tradesOf(message.data)[1]))
         => /\ batchBuffer' = batchBuffer
            /\ procStats'.filtered = procStats.filtered + 1]_vars

\* An event that fails to process: its price or size is not a number, or
\* its users pair is missing (the callback raises).
Fails(rawTrade) == NonNumeric(rawTrade) \/ Len(rawTrade.users) < 2

\* A record of the buffer without its history stamp.
Unstamp(rec) == [f \in DOMAIN rec \ {"seq"} |-> rec[f]]
Unstamped(s) == [k \in 1..Len(s) |-> Unstamp(s[k])]

\* C20: when events of a trades frame fail to process, every other event of
\* the frame, before and after them, is processed and submitted exactly as
\* if the failing events were absent from the frame.
C20_FailureIsolation ==
    [][\A s \in 1..Len(sockets), message \in Frames :
         (OnMessage(s, message) /\ IsTradesFrame(message)) =>
           LET others == SelectSeq(tradesOf(message.data), LAMBDA e : ~Fails(e))
               without == onmessage(World, Proc, Message("trades", ArrayOf(others)),
                                    procMap).p
           IN  /\ Unstamped(batchBuffer') = Unstamped(without.batchBuffer)
               /\ batchTimeout' = without.batchTimeout
               /\ flushTimers' = without.flushTimers]_vars

\* A frame that fails to parse, or a trades frame with an element that is
\* not a trade (the callback raises on it).
Malformed(message) ==
    \/ ~parses(message)
    \/ /\ IsTradesFrame(message)
       /\ \E k \in 1..Len(tradesOf(message.data)) :
             Len(tradesOf(message.data)[k].users) < 2

\* C21: a frame that fails to parse or has an unexpected shape leaves the
\* connection state unchanged: the socket stays open, the status, the error
\* message and the reconnect-attempt counter are unchanged and no reconnect
\* is scheduled; and the frames after it are still processed: a well-formed
\* trades frame has all its events forwarded whatever came before it.
C21_MalformedFrameSkipped ==
    /\ [][\A s \in 1..Len(sockets), message \in Frames :
            (OnMessage(s, message) /\ Malformed(message)) =>
              /\ UNCHANGED <<sockets, hooks, timeouts, intervals,
                             connectionStatus, errorMessage, mounted>>
              /\ sockets'[s].readyState = "OPEN"]_vars
    /\ []((IsTradesFrame(lastFrame) /\ ~Malformed(lastFrame))
            => forwarded = tradesOf(lastFrame.data))

\* An object that is not a trade came in a trades frame (counted as
\* processed, nothing accepted), and the two trades of the next frame were
\* forwarded and accepted.
C21_Witness ==
    /\ lastFrame = Message("trades", ArrayOf(<<Good1, Good2>>))
    /\ forwarded = <<Good1, Good2>>
    /\ procStats.processed = 3
    /\ Len(accepted) = 2
    /\ messageCount = 2
    /\ connectionStatus = "connected"

(***************************************************************************)
(* Claims about the processing step (SpecProcess).  The lookup table of a  *)
(* step is the one its processTrade closure holds (procMap).               *)
(***************************************************************************)
Notional(rawTrade) == NumMul(parseFloat(rawTrade.px), parseFloat(rawTrade.sz))
MakerTracked(rawTrade) == toLowerCase(rawTrade.users[1]) \in DOMAIN procMap
TakerTracked(rawTrade) == toLowerCase(rawTrade.users[2]) \in DOMAIN procMap
Tracked(rawTrade) == MakerTracked(rawTrade) \/ TakerTracked(rawTrade)
Large(rawTrade) == Notional(rawTrade).v >= WHALE_THRESHOLD_USD

\* The step discarded its event: nothing submitted, filtered counted.
Discarded ==
    /\ batchBuffer' = batchBuffer
    /\ procStats'.filtered = procStats.filtered + 1

\* The step returned a record and submitted it: the last of the pending list.
Emitted ==
    /\ Len(batchBuffer') = Len(batchBuffer) + 1
    /\ procStats'.filtered = procStats.filtered

Returned == batchBuffer'[Len(batchBuffer')]

\* C22: the processing step discards an event (returns null, increments
\* filtered) if and only if neither participant is tracked, the notional is
\* below the large threshold and strictly below the noise threshold; every
\* other event is returned, so also an untracked one whose notional equals
\* the noise threshold.
C22_NoiseFilter ==
    [][\A rawTrade \in ProcessInputs : HandleTrade(rawTrade) =>
         /\ Discarded <=> (/\ ~Tracked(rawTrade)
                           /\ Notional(rawTrade).v < WHALE_THRESHOLD_USD
                           /\ Notional(rawTrade).v < NOISE_THRESHOLD_USD)
         /\ Discarded \/ Emitted]_vars

\* An untracked trade of exactly the noise threshold is pending, and a
\* smaller one was discarded.
C22_Witness ==
    /\ procStats.filtered > 0
    /\ batchBuffer # <<>>
    /\ \E k \in 1..Len(batchBuffer) :
          /\ batchBuffer[k].sizeUsd = Num(NOISE_THRESHOLD_USD)
          /\ ~batchBuffer[k].isSmart

C25_SideMapping ==
    [][\A rawTrade \in ProcessInputs : HandleTrade(rawTrade) =>
         /\ (rawTrade.side = "B" /\ Emitted) => Returned.side = "Long"
         /\ (rawTrade.side = "A" /\ Emitted) => Returned.side = "Short"
         /\ rawTrade.side \notin {"A", "B"} => Discarded]_vars

(***************************************************************************)
(* Claims about clearing, the counters and the view.                       *)
(***************************************************************************)
\* C26: after clearTrades the collection is empty and the four aggregate
\* counters are zero, while the lookup table, the connection status, the
\* error message and the filters are what they were before.
C26_Clear ==
    [][ClearTrades =>
         /\ trades' = <<>>
         /\ stats'.totalTrades = 0 /\ stats'.smartTrades = 0
         /\ stats'.whaleTrades = 0
         /\ ~stats'.totalVolume.nan /\ stats'.totalVolume.v = 0
         /\ smartMoneyMap' = smartMoneyMap
         /\ connectionStatus' = connectionStatus
         /\ errorMessage' = errorMessage
         /\ filters' = filters]_vars

\* Records were added and cleared: the collection is empty and the counters
\* are zero while the table is loaded, the filters are not the default ones,
\* the connector lost its socket and an error message is shown.
C26_Witness ==
    /\ clock > 0 /\ trades = <<>> /\ stats = ZeroStats
    /\ smartMoneyMap = FundMap
    /\ filters.showWhalesOnly /\ filters.minTradeSize = 10000
    /\ filters.selectedCoins = <<"ETH">>
    /\ connectionStatus = "error"
    /\ errorMessage # NoMessage

\* C27: across every step that is not clearTrades none of totalTrades,
\* smartTrades, whaleTrades decreases, and totalVolume does not decrease
\* while the notionals are numbers (nonnegative, as every number of the
\* model is); so the counters go back to zero through clearTrades only.
C27_CountersMonotone ==
    [][ClearTrades \/
         /\ stats'.totalTrades >= stats.totalTrades
         /\ stats'.smartTrades >= stats.smartTrades
         /\ stats'.whaleTrades >= stats.whaleTrades
         /\ (~stats.totalVolume.nan /\ ~stats'.totalVolume.nan)
              => stats'.totalVolume.v >= stats.totalVolume.v]_vars

\* Two batches were merged one after the other without a clear, and the
\* counters count more records than the collection holds.
C27_Witness ==
    /\ onlySubmitFlush
    /\ Len(merged) >= 2
    /\ stats.totalTrades > Len(trades)
    /\ stats.smartTrades > 0 /\ stats.whaleTrades > 0
    /\ stats.totalVolume.v > 0

\* C28: the projection of the collection under the filters is the
\* subsequence, in the order of the collection, of the records with:
\* tracked-only off or the record tracked; large-only off or the record
\* large; notional >= minimum size; whitelist empty or holding the record's
\* ticker.  Under the default filters the projection is the collection.
Satisfies(trade, f) ==
    /\ ~f.showSmartOnly \/ trade.isSmart
    /\ ~f.showWhalesOnly \/ trade.isWhale
    /\ ~trade.sizeUsd.nan /\ trade.sizeUsd.v >= f.minTradeSize
    /\ f.selectedCoins = <<>> \/ trade.ticker \in Range(f.selectedCoins)

C28_ViewProjection ==
    /\ useFilteredTrades(trades, filters)
         = SelectSeq(trades, LAMBDA trade : Satisfies(trade, filters))
    /\ filters = defaultFilters => useFilteredTrades(trades, filters) = trades

(***************************************************************************)
(* Claims about the heartbeat and about stop.                              *)
(***************************************************************************)
\* C29: a ping frame is sent only on a socket that is open at that moment
\* and that its connector still references, with the heartbeat timer that
\* sends it alive: never on a connecting, closing or closed socket, so not
\* on a socket that was stopped or whose close event was handled.  A tick
\* of a heartbeat timer whose connector has no open socket sends nothing.
C29_HeartbeatOnlyWhileOpen ==
    [][/\ (lastSent' # lastSent /\ lastSent'.method = "ping") =>
            LET s == lastSent'.sock
                i == sockets[s].inst
            IN  /\ sockets[s].readyState = "OPEN"
                /\ sockets'[s].readyState = "OPEN"
                /\ hooks[i].wsRef = s
                /\ \E t \in intervals : t.inst = i /\ t.id = hooks[i].heartbeatRef
       /\ \A t \in intervals :
            (/\ HeartbeatTick(t)
             /\ \/ hooks[t.inst].wsRef = 0
                \/ sockets[hooks[t.inst].wsRef].readyState # "OPEN")
              => lastSent' = lastSent]_vars

\* A ping was sent on a socket that is now closing while the heartbeat
\* timer of its connector is still alive.
C29_Witness ==
    /\ lastSent.method = "ping"
    /\ sockets[lastSent.sock].readyState = "CLOSING"
    /\ \E t \in intervals : t.inst = sockets[lastSent.sock].inst

\* C30: when manualDisconnect returns, the heartbeat timer and the reconnect
\* timer of the connector are cancelled, the socket it referenced has been
\* closed with code 1000 and is referenced no longer, the reconnect-attempt
\* counter is zero, and the status the store reports is disconnected.
StopTimersCancelled(i) ==
    /\ hooks'[i].heartbeatRef = 0 /\ hooks'[i].reconnectTimeoutRef = 0
    /\ ~\E t \in intervals' \cup timeouts' : t.inst = i

StopSocketClosed(i) ==
    LET r == hooks[i].wsRef
    IN  /\ hooks'[i].wsRef = 0
        /\ r # 0 => /\ ~Live(sockets'[r])
                    /\ Live(sockets[r]) => /\ sockets'[r].readyState = "CLOSING"
                                           /\ sockets'[r].closeCode = NormalClosure

C30_StopPostState ==
    [][\A i \in 1..Len(hooks) : (i = mounted /\ ManualDisconnect) =>
         /\ StopTimersCancelled(i)
         /\ StopSocketClosed(i)
         /\ hooks'[i].reconnectAttemptsRef = 0
         /\ connectionStatus' = "disconnected"]_vars

(***************************************************************************)
(* Claims about the lookup table, the flush and the processor counters.    *)
(***************************************************************************)
\* C31: the store's table changes only by setSmartMoneyMap installing a
\* whole table, the table a processing step works on changes only at a
\* render, to the store's table, and a processing step resolves the maker
\* and the taker against that one table, also when the store's table was
\* replaced since the render.
C31_AtomicTableReplacement ==
    [][/\ smartMoneyMap' # smartMoneyMap =>
            \E map \in {FundMap, BothMap} : SetSmartMoneyMap(map)
       /\ procMap' # procMap => (Render /\ procMap' = smartMoneyMap)
       /\ \A rawTrade \in ProcessInputs : (HandleTrade(rawTrade) /\ Emitted) =>
            LET maker == rawTrade.users[1]
                taker == rawTrade.users[2]
                inMaker == toLowerCase(maker) \in DOMAIN procMap
                inTaker == toLowerCase(taker) \in DOMAIN procMap
            IN  /\ Returned.isSmart = (inMaker \/ inTaker)
                /\ inMaker => Returned.walletAddress = maker
                /\ (~inMaker /\ inTaker) =>
                      /\ Returned.walletAddress = taker
                      /\ Returned.walletLabel = procMap[toLowerCase(taker)].labels[1]
                /\ (~inMaker /\ ~inTaker) => Returned.walletLabel \in {"Whale", Undefined}]_vars

\* Two trades of the same taker are pending: the first was processed after
\* the table with the taker was installed but before the render that took
\* it up (not tracked), the second after that render (tracked).
C31_Witness ==
    \E k, j \in 1..Len(batchBuffer) :
       /\ k < j
       /\ batchBuffer[k].walletAddress = "0xBbB" /\ ~batchBuffer[k].isSmart
       /\ batchBuffer[j].walletAddress = "0xBbB" /\ batchBuffer[j].isSmart
       /\ procMap = BothMap

\* C32: after every flush, by a timer or by a direct call, with the pending
\* list empty or not, the pending list is empty and the stored timer handle
\* is none; a flush that finds the pending list empty leaves the collection
\* and the aggregate counters as they were.
C32_FlushResets ==
    [][(FlushTimerFires \/ ManualFlush) =>
         /\ batchBuffer' = <<>>
         /\ batchTimeout' = FALSE
         /\ batchBuffer = <<>> => (trades' = trades /\ stats' = stats)]_vars

\* A flush has merged a batch and reset the pending list and the handle
\* while a flush timer is still outstanding: its flush will find the
\* pending list empty.
C32_Witness ==
    /\ Len(merged) > 0 /\ trades # <<>>
    /\ batchBuffer = <<>> /\ ~batchTimeout
    /\ flushTimers > 0

(***************************************************************************)
(* Claims about the connector in the live feed and its status.             *)
(***************************************************************************)
\* C33: in the live feed no socket is created while the lookup cache is
\* loading, and once the feed is mounted with the cache loaded, a socket is
\* eventually created (unless the feed is unmounted first).
C33_ConnectsOnceLoaded ==
    /\ [][isLoading' => sockets' = sockets]_vars
    /\ (mounted # 0 /\ ~isLoading) ~> (Len(sockets) > 0 \/ mounted = 0)

\* C34: whenever the store reports connected, some connector references a
\* socket and that socket is open.
C34_ConnectedImpliesOpen ==
    connectionStatus = "connected" =>
        \E i \in 1..Len(hooks) :
           /\ hooks[i].wsRef # 0
           /\ sockets[hooks[i].wsRef].readyState = "OPEN"

\* C35: the status the store holds is the statusRef of the connector, the
\* instance mounted last, also after its cleanup or its manual disconnect.
C35_SinkAgrees ==
    Len(hooks) > 0 => connectionStatus = hooks[Len(hooks)].statusRef

\* C36: the reconnect-attempt counter of every connector is between 0 and
\* MAX_RECONNECT_ATTEMPTS; every open of a socket and every manualDisconnect
\* sets it to 0; so when a socket that had opened closes abnormally, the
\* counter becomes 1 and the reconnect is scheduled with the base delay.
HadOpened(sock) ==
    \/ sock.readyState = "OPEN"
    \/ sock.readyState = "CLOSING" /\ ~sock.failed

C36_AttemptCounter ==
    [][/\ \A i \in 1..Len(hooks') :
            /\ hooks'[i].reconnectAttemptsRef >= 0
            /\ hooks'[i].reconnectAttemptsRef <= MAX_RECONNECT_ATTEMPTS
       /\ \A s \in 1..Len(sockets) :
            SocketOpens(s) => hooks'[sockets[s].inst].reconnectAttemptsRef = 0
       /\ \A i \in 1..Len(hooks) :
            (i = mounted /\ ManualDisconnect) => hooks'[i].reconnectAttemptsRef = 0
       /\ \A s \in 1..Len(sockets), withError \in BOOLEAN :
            (SocketCloses(s, AbnormalClosure, withError) /\ HadOpened(sockets[s])) =>
              LET i == sockets[s].inst
              IN  /\ hooks'[i].reconnectAttemptsRef = 1
                  /\ \E t \in timeouts' :
                        /\ t.inst = i /\ t.id = hooks'[i].reconnectTimeoutRef
                        /\ t.delay = RECONNECT_DELAY_BASE]_vars

\* Several sockets were lost and replaced and the counter was reset since:
\* the last loss counts as the first attempt again and the base delay runs.
C36_Witness ==
    \E t \in timeouts :
       /\ t.delay = RECONNECT_DELAY_BASE
       /\ hooks[t.inst].reconnectAttemptsRef = 1
       /\ hooks[t.inst].failures = 1
       /\ Len(sockets) >= 4

\* C37: at most one heartbeat interval timer is alive, and a heartbeat timer
\* that is alive is the one its connector references, for a socket that
\* connector still references and that has not closed (so that the close or
\* the stop of that socket cancels it).
C37_SingleHeartbeatTimer ==
    /\ Cardinality(intervals) <= 1
    /\ \A t \in intervals :
          /\ hooks[t.inst].heartbeatRef = t.id
          /\ hooks[t.inst].wsRef # 0
          /\ sockets[hooks[t.inst].wsRef].readyState \in {"OPEN", "CLOSING"}

\* C38: clearTrades leaves the pending list, the timer handle and the
\* flush timers as they are; and a flush that finds records pending and the
\* collection cleared puts them into the collection, in their order and up
\* to its capacity, and counts every one of them: the collection is not
\* empty after it.
C38_ClearKeepsPending ==
    [][/\ ClearTrades =>
            /\ batchBuffer' = batchBuffer
            /\ batchTimeout' = batchTimeout
            /\ flushTimers' = flushTimers
       /\ ((FlushTimerFires \/ ManualFlush)
             /\ batchBuffer # <<>> /\ trades = <<>> /\ stats = ZeroStats) =>
            /\ trades' # <<>>
            /\ trades' = SubSeq(batchBuffer, 1,
                           IF Len(batchBuffer) < maxTrades THEN Len(batchBuffer)
                           ELSE maxTrades)
            /\ stats'.totalTrades = Len(batchBuffer)]_vars

\* A batch was merged, the collection has been cleared since, and records
\* are pending with their flush timer running.
C38_Witness ==
    /\ merged # <<>>
    /\ ~onlySubmitFlush /\ trades = <<>> /\ stats = ZeroStats
    /\ batchBuffer # <<>> /\ batchTimeout /\ flushTimers > 0

\* C39: after any sequence of processTrade calls, processed is filtered
\* plus the number of records returned, and enriched is the number of
\* returned records that are tracked.
C39_ProcessorCounters ==
    /\ procStats.processed = procStats.filtered + Len(accepted)
    /\ procStats.enriched =
          Cardinality({k \in 1..Len(accepted) : accepted[k].isSmart})

====
